---- MODULE Spec2Model ----
(***************************************************************************)
(* Model of the MaxMemory hybrid memory engine:                            *)
(*   app/services/memory_service.py  (MemoryService: Neo4j + FAISS)        *)
(*   GraphRAG (copy)/memory_manager.py (split_document, relate_chunks)     *)
(*                                                                         *)
(* A text is a sequence of tokens.  A token is a lower-case word or the    *)
(* token "." which stands for one run of sentence punctuation [.!?]+ .     *)
(* ' '.join(words) of the code is the word sequence itself, and            *)
(* s.split() of a joined text gives the same words back.                   *)
(***************************************************************************)
EXTENDS Integers, Sequences, FiniteSets, TLC

VARIABLES
    \* ---- MemoryService state -------------------------------------------
    vector_store,   \* self.vector_store: NoStore (None) or a FAISS index
    disk,           \* the faiss_index directory: NoStore (absent) or a snapshot
    memories,       \* Neo4j (:Memory) nodes
    documents,      \* Neo4j (:Document) nodes
    contains,       \* Neo4j (d)-[:CONTAINS]->(m) edges, <<doc node id, memory node id>>
    next,           \* Neo4j (m1)-[:NEXT]->(m2) edges, <<memory node id, memory node id>>
    next_id,        \* next fresh Neo4j node id (also the creation time stamp)
    last,           \* the last call of the service and what it returned
    faults,         \* number of failures of an external call so far
    conv_of,        \* <<memory node id, conversation id>>: the conversation
                    \* (SQL Conversation row) whose chat recorded the node
    calls,          \* the add_document_memory and clear_all calls that run
                    \* step by step, each with its locals and position
    \* ---- one run of the chunker ----------------------------------------
    c_in,           \* the input text, as sentence shapes (see ShapeText)
    c_par,          \* <<chunk_size, overlap>> of this run
    c_i,            \* number of sentences already processed by the loop
    c_loop,         \* the loop's locals: chunks, current_chunk, ...
    c_trace,        \* which path emitted each chunk of c_loop.chunks
    c_pc            \* "loop" | "done"

store_vars == <<vector_store, disk, memories, documents, contains, next, next_id, last,
                faults, conv_of, calls>>
env_vars == <<faults, conv_of>>
graph_vars == <<memories, documents, contains, next, next_id>>
chunk_vars == <<c_in, c_par, c_i, c_loop, c_trace, c_pc>>
vars == <<vector_store, disk, memories, documents, contains, next, next_id, last,
          faults, conv_of, c_in, c_par, c_i, c_loop, c_trace, c_pc>>

\* A property or metadata key that is not set (Python None / Cypher null).
None == "None"
\* chunk_index of a node or entry that has none.
NoChunkIndex == 0 - 1

\* A FAISS index is the list of its entries, in the order they were added.
\* NoStore is self.vector_store = None, and an absent faiss_index directory.
NoStore == [exists |-> FALSE, entries |-> <<>>]
Store(entries) == [exists |-> TRUE, entries |-> entries]

(***************************************************************************)
(* Program constants                                                       *)
(***************************************************************************)
chunk_word_limit == 100
overlap == 10
MinChunkWords == 5
NEG == "[NEG]"
Period == "."

\* negation_keywords: the one-word cues, and the two-word cue 'no longer'.
\* The code tests `neg in text.lower()`; over the vocabulary of this model
\* (no word has a cue as a proper substring) that is: some word is a
\* one-word cue, or the word "no" is directly followed by the word "longer".
negation_keywords == {"not", "doesn't", "don't", "left", "stopped", "quit", "resigned"}

ContainsCue(toks) ==
    \/ \E i \in 1..Len(toks) : toks[i] \in negation_keywords
    \/ \E i \in 1..(Len(toks) - 1) : toks[i] = "no" /\ toks[i + 1] = "longer"

Min(a, b) == IF a < b THEN a ELSE b

\* Python slices seq[:n] and seq[n:] for n >= 0.
Take(s, n) == SubSeq(s, 1, Min(n, Len(s)))
Drop(s, n) == SubSeq(s, Min(n, Len(s)) + 1, Len(s))

(***************************************************************************)
(* The chunker: _split_document / split_document                           *)
(***************************************************************************)
\* re.split(r'[.!?]+', text), then strip and drop the empty pieces.
\* Position of the first punctuation token at or after i (Len + 1 if none).
NextPeriod(text, i) ==
    LET ps == {j \in i..Len(text) : text[j] = Period}
    IN  IF ps = {} THEN Len(text) + 1
        ELSE CHOOSE j \in ps : \A k \in ps : j <= k

RECURSIVE SplitSentences(_, _)
SplitSentences(text, i) ==
    IF i > Len(text) THEN <<>>
    ELSE LET j == NextPeriod(text, i)
         IN  (IF j > i THEN <<SubSeq(text, i, j - 1)>> ELSE <<>>)
             \o SplitSentences(text, j + 1)

Sentences(text) == SplitSentences(text, 1)

LoopInit ==
    [chunks |-> <<>>, current_chunk |-> <<>>, current_word_count |-> 0,
     overlap_words |-> <<>>]

\* if current_word_count + sentence_word_count > chunk_size and current_chunk:
NaturalFlush(st, words, cs) ==
    st.current_word_count + Len(words) > cs /\ st.current_chunk # <<>>

\* The chunk the natural flush appends (no marker is added on this path).
NaturalChunk(st) == st.current_chunk

\* First half of the loop body: flush-and-restart or extend, then the
\* overlap words of this sentence.
Accumulate(st, words, cs, ov) ==
    LET flushed == IF NaturalFlush(st, words, cs)
                   THEN [st EXCEPT
                           !.chunks = IF Len(st.current_chunk) >= MinChunkWords
                                      THEN Append(@, NaturalChunk(st)) ELSE @,
                           !.current_chunk = st.overlap_words \o words,
                           !.current_word_count = Len(st.overlap_words \o words)]
                   ELSE [st EXCEPT
                           !.current_chunk = @ \o words,
                           !.current_word_count = @ + Len(words)]
    IN  [flushed EXCEPT
           !.overlap_words = IF Len(words) > ov
                             THEN SubSeq(words, Len(words) - Min(ov, Len(words)) + 1, Len(words))
                             ELSE words]

\* if current_word_count >= chunk_size * 1.5:
ForcedFlush(st, cs) == 2 * st.current_word_count >= 3 * cs

\* The chunk the forced flush appends: the first chunk_size words, marked
\* when the sentence just read has a cue.
ForcedChunk(st, words, cs) ==
    IF ContainsCue(words)
    THEN <<NEG>> \o Take(st.current_chunk, cs)
    ELSE Take(st.current_chunk, cs)

Force(st, words, cs, ov) ==
    IF ForcedFlush(st, cs)
    THEN [st EXCEPT
            !.chunks = IF Len(Take(st.current_chunk, cs)) >= MinChunkWords
                       THEN Append(@, ForcedChunk(st, words, cs)) ELSE @,
            !.current_chunk = Drop(st.current_chunk, cs - ov),
            !.current_word_count = Len(Drop(st.current_chunk, cs - ov))]
    ELSE st

\* One iteration of `for sentence in sentences`.
LoopStep(st, words, cs, ov) == Force(Accumulate(st, words, cs, ov), words, cs, ov)

RECURSIVE LoopFrom(_, _, _, _, _)
LoopFrom(st, sents, i, cs, ov) ==
    IF i > Len(sents) THEN st
    ELSE LoopFrom(LoopStep(st, sents[i], cs, ov), sents, i + 1, cs, ov)

Marked(toks) == IF ContainsCue(toks) THEN <<NEG>> \o toks ELSE toks

\* Mutant of FinalChunks: the remaining chunk is kept whatever its length.
FinalChunksAnyLength(st) ==
    IF st.current_chunk # <<>>
    THEN Append(st.chunks, Marked(st.current_chunk))
    ELSE st.chunks

\* "Add remaining chunk"
FinalChunks(st) ==
    IF st.current_chunk # <<>> /\ Len(st.current_chunk) >= MinChunkWords
    THEN Append(st.chunks, Marked(st.current_chunk))
    ELSE st.chunks

\* "If no chunks were created, return the whole text as one chunk"
WithFallback(chunks, text) ==
    IF chunks = <<>> /\ text # <<>> THEN <<Marked(text)>> ELSE chunks

SplitDocument(text, cs, ov) ==
    LET sents == Sentences(text)
    IN  IF sents = <<>> THEN <<>>
        ELSE WithFallback(FinalChunks(LoopFrom(LoopInit, sents, 1, cs, ov)), text)

\* MemoryService._split_document: the limits are fixed in the method.
split_document(text) == SplitDocument(text, chunk_word_limit, overlap)

(***************************************************************************)
(* One run of the chunker, sentence by sentence                            *)
(***************************************************************************)
\* Bounds of the input texts.
MaxSentences == 3
SentLens == {4, 51, 100, 150, 240}
CueKinds == {"plain", "neg_first", "neg_last"}

\* The <<chunk_size, overlap>> pairs of a run: the fixed limits of
\* MemoryService._split_document, which are the defaults of split_document.
ChunkParams == {<<chunk_word_limit, overlap>>}

\* A sentence of n words: filler words, with the cue "not" first or last.
MkSentence(shape) ==
    [i \in 1..shape[1] |->
        IF \/ shape[2] = "neg_first" /\ i = 1
           \/ shape[2] = "neg_last" /\ i = shape[1]
        THEN "not" ELSE "w"]

RECURSIVE JoinSentences(_, _)
JoinSentences(shapes, i) ==
    IF i > Len(shapes) THEN <<>>
    ELSE MkSentence(shapes[i])
         \o (IF i < Len(shapes) THEN <<Period>> ELSE <<>>)
         \o JoinSentences(shapes, i + 1)

\* The text of an input: its sentences separated by punctuation, with or
\* without punctuation after the last one.
ShapeText(in) ==
    JoinSentences(in.sents, 1) \o (IF in.final_period THEN <<Period>> ELSE <<>>)

ChunkInputs ==
    {[sents |-> s, final_period |-> f] :
        s \in UNION {[1..n -> SentLens \X CueKinds] : n \in 0..MaxSentences},
        f \in BOOLEAN}

c_text == ShapeText(c_in)
c_sents == Sentences(c_text)

\* No call is in progress.  `cleared` remembers the tenants clear_all has
\* been called for.
NoCalls ==
    [ingest  |-> [pc |-> "idle", text |-> <<>>, chunks |-> <<>>, file |-> None,
                  user_id |-> None, project_id |-> None],
     clear   |-> [pc |-> "idle", user_id |-> None, project_id |-> None,
                  deleted |-> 0, records |-> {}],
     cleared |-> {}]

StoreIdle ==
    /\ vector_store = NoStore /\ disk = NoStore
    /\ memories = {} /\ documents = {} /\ contains = {} /\ next = {}
    /\ next_id = 1
    /\ last = [op |-> "none"]
    /\ faults = 0
    /\ conv_of = {}
    /\ calls = NoCalls

ChunkInit ==
    /\ c_in \in ChunkInputs
    /\ c_par \in ChunkParams
    /\ c_i = 0
    /\ c_loop = LoopInit
    /\ c_trace = <<>>
    /\ c_pc = "loop"
    /\ StoreIdle

\* for sentence in sentences: ... (one iteration)
ChunkSentence ==
    /\ c_pc = "loop"
    /\ LET sents == c_sents
       IN  /\ c_i < Len(sents)
           /\ LET words == sents[c_i + 1]
                  mid   == Accumulate(c_loop, words, c_par[1], c_par[2])
                  new   == Force(mid, words, c_par[1], c_par[2])
              IN  /\ c_loop' = new
                  /\ c_trace' = c_trace
                       \o (IF Len(mid.chunks) > Len(c_loop.chunks) THEN <<"natural">> ELSE <<>>)
                       \o (IF Len(new.chunks) > Len(mid.chunks) THEN <<"forced">> ELSE <<>>)
    /\ c_i' = c_i + 1
    /\ UNCHANGED <<c_in, c_par, c_pc>>
    /\ UNCHANGED store_vars

\* The code after the loop: the remaining chunk, the fallback, return.
ChunkReturn ==
    /\ c_pc = "loop"
    /\ LET text  == c_text
           sents == Sentences(text)
       IN  /\ c_i = Len(sents)
           /\ LET fin == IF sents = <<>> THEN <<>> ELSE FinalChunks(c_loop)
                  out == IF sents = <<>> THEN <<>> ELSE WithFallback(fin, text)
              IN  /\ c_loop' = [c_loop EXCEPT !.chunks = out]
                  /\ c_trace' = c_trace
                       \o (IF Len(fin) > Len(c_loop.chunks) THEN <<"final">> ELSE <<>>)
                       \o (IF Len(out) > Len(fin) THEN <<"fallback">> ELSE <<>>)
    /\ c_pc' = "done"
    /\ UNCHANGED <<c_in, c_par, c_i>>
    /\ UNCHANGED store_vars

ChunkNext == ChunkSentence \/ ChunkReturn

SpecChunk == ChunkInit /\ [][ChunkNext]_vars

\* The stepwise run returns what the function returns.
ChunkRunIsSplitDocument ==
    c_pc = "done" => c_loop.chunks = SplitDocument(c_text, c_par[1], c_par[2])

(***************************************************************************)
(* MemoryService: inputs of the model                                      *)
(***************************************************************************)
\* Caps the number of Memory nodes ever created.
MaxNodes == 4

\* Tenants <<user_id, project_id>>: two projects of one user, and another
\* user with the same project id.
Tenants == {<<"u1", "p1">>, <<"u1", "p2">>, <<"u2", "p1">>}

Filler(n) == [i \in 1..n |-> "w"]
\* One sentence of five words with a cue: one chunk.
DocShort == <<"acme", "w", "w", "w", "not", Period>>
\* 96 words, then 5: the second sentence does not fit, so two chunks.
DocLong == Filler(96) \o <<Period, "work", "w", "w", "w", "w", Period>>

\* The files users upload, <<file name, extracted text>>.  upload_file
\* passes the file name as source and as doc_id.
Uploads == {<<"a.txt", DocLong>>, <<"b.txt", DocShort>>}

\* Chat turns <<query, answer>>, search queries and values of k.
Turns == {<<(<<"acme">>), (<<"w">>)>>}
Queries == {<<"acme">>, <<"wrk">>}
Ks == {1, 2}

\* Distances the vector index may report, in tenths (FAISS L2 distance).
Distances == {5, 10}

(***************************************************************************)
(* add_document_memory                                                     *)
(***************************************************************************)
DocPriority == 10   \* m.priority = 1.0, in tenths
ChatPriority == 8   \* m.priority = 0.8, in tenths

\* metadata.copy() with chunk_index and text added (page_content is the chunk).
DocEntry(chunk, i, file, user_id, project_id) ==
    [text |-> chunk,
     metadata |-> [source |-> file, doc_id |-> file, user_id |-> user_id,
                   project_id |-> project_id, chunk_index |-> i, type |-> None]]

DocEntries(chunks, file, user_id, project_id) ==
    [i \in 1..Len(chunks) |-> DocEntry(chunks[i], i - 1, file, user_id, project_id)]

\* Mutant of AddTexts: a new index is built from the texts of every call.
AddTextsFromScratch(vs, entries) == Store(entries)

\* FAISS.from_texts when there is no index yet, add_texts otherwise.
AddTexts(vs, entries) ==
    IF vs = NoStore THEN Store(entries) ELSE Store(vs.entries \o entries)

\* MERGE (d:Document {id: $doc_id}) ON CREATE SET ...
DocumentKey(d, doc_id, user_id, project_id) == d.id = doc_id

\* Mutant of MergeDocument: the properties are set on every MERGE, not only
\* ON CREATE.
MergeDocumentAlwaysSet(docs, doc_id, source, user_id, project_id, now) ==
    {d \in docs : d.id # doc_id}
        \cup {[id |-> doc_id, source |-> source, user_id |-> user_id,
                project_id |-> project_id, timestamp |-> now]}

MergeDocument(docs, doc_id, source, user_id, project_id, now) ==
    IF \E d \in docs : DocumentKey(d, doc_id, user_id, project_id)
    THEN docs
    ELSE docs \cup {[id |-> doc_id, source |-> source, user_id |-> user_id,
                     project_id |-> project_id, timestamp |-> now]}

\* CREATE (m:Memory {text: $text}) SET m.chunk_index = ..., m.priority = 1.0, ...
DocMemory(id, chunk, i, user_id, project_id) ==
    [id |-> id, text |-> chunk, chunk_index |-> i, priority |-> DocPriority,
     user_id |-> user_id, project_id |-> project_id, source |-> None, type |-> None]

\* MATCH (m1:Memory {text: $prev_text}) MATCH (m2:Memory {text: $curr_text})
\* MERGE (m1)-[:NEXT]->(m2)
RelateChunks(mems, prev_text, curr_text) ==
    {<<m1.id, m2.id>> : m1 \in {m \in mems : m.text = prev_text},
                        m2 \in {m \in mems : m.text = curr_text}}

\* One iteration of `for i, chunk in enumerate(chunks)`; i counts from 1 here.
GraphWriteChunk(g, chunks, i, file, user_id, project_id) ==
    LET docs == MergeDocument(g.documents, file, file, user_id, project_id, g.next_id)
        m    == DocMemory(g.next_id, chunks[i], i - 1, user_id, project_id)
        mems == g.memories \cup {m}
        owners == {d \in docs : DocumentKey(d, file, user_id, project_id)}
    IN  [memories  |-> mems,
         documents |-> docs,
         contains  |-> g.contains \cup {<<d.id, m.id>> : d \in owners},
         next      |-> IF i > 1
                       THEN g.next \cup RelateChunks(mems, chunks[i - 1], chunks[i])
                       ELSE g.next,
         next_id   |-> g.next_id + 1]

RECURSIVE GraphWrite(_, _, _, _, _, _)
GraphWrite(g, chunks, i, file, user_id, project_id) ==
    IF i > Len(chunks) THEN g
    ELSE GraphWrite(GraphWriteChunk(g, chunks, i, file, user_id, project_id),
                    chunks, i + 1, file, user_id, project_id)

Graph ==
    [memories |-> memories, documents |-> documents, contains |-> contains,
     next |-> next, next_id |-> next_id]

Ingest(text, file, user_id, project_id) ==
    LET chunks == split_document(text)
        g      == GraphWrite(Graph, chunks, 1, file, user_id, project_id)
    IN  /\ next_id + Len(chunks) - 1 <= MaxNodes
        /\ vector_store' = AddTexts(vector_store, DocEntries(chunks, file, user_id, project_id))
        /\ disk' = vector_store'
        /\ memories' = g.memories
        /\ documents' = g.documents
        /\ contains' = g.contains
        /\ next' = g.next
        /\ next_id' = g.next_id
        /\ last' = [op |-> "add_document_memory", user_id |-> user_id,
                    project_id |-> project_id, text |-> text, doc_id |-> file,
                    first_id |-> next_id,
                    ret |-> [chunks |-> Len(chunks), doc_id |-> file]]
        /\ UNCHANGED env_vars
        /\ UNCHANGED <<chunk_vars, calls>>

(***************************************************************************)
(* add_chat_memory                                                         *)
(***************************************************************************)
\* text = f"User: {query}\nAssistant: {answer}"
ChatText(query, answer) == <<"User:">> \o query \o <<"Assistant:">> \o answer

ChatEntry(text, user_id, project_id) ==
    [text |-> text,
     metadata |-> [source |-> "chat", doc_id |-> None, user_id |-> user_id,
                   project_id |-> project_id, chunk_index |-> NoChunkIndex,
                   type |-> "conversation"]]

\* Mutant of ChatMemory: a turn gets the priority of a document chunk.
ChatMemoryAsChunk(id, text, user_id, project_id) ==
    [id |-> id, text |-> text, chunk_index |-> NoChunkIndex, priority |-> DocPriority,
     user_id |-> user_id, project_id |-> project_id, source |-> "chat",
     type |-> "conversation"]

\* CREATE (m:Memory {text: $text}) SET m.source = 'chat', m.priority = 0.8, ...
ChatMemory(id, text, user_id, project_id) ==
    [id |-> id, text |-> text, chunk_index |-> NoChunkIndex, priority |-> ChatPriority,
     user_id |-> user_id, project_id |-> project_id, source |-> "chat",
     type |-> "conversation"]

\* self.vector_store.add_texts(...) with self.vector_store None raises
\* AttributeError before anything is written.  Which conversation the turn
\* belongs to is the caller's business: conv_of is set by the endpoint.
AddChat(query, answer, user_id, project_id) ==
    LET text == ChatText(query, answer)
    IN  /\ next_id <= MaxNodes
        /\ IF vector_store = NoStore
           THEN /\ last' = [op |-> "add_chat_memory", user_id |-> user_id,
                            project_id |-> project_id, text |-> text,
                            ret |-> "AttributeError"]
                /\ UNCHANGED <<vector_store, disk, memories, documents, contains,
                               next, next_id>>
           ELSE /\ vector_store' = AddTexts(vector_store, <<ChatEntry(text, user_id, project_id)>>)
                /\ disk' = vector_store'
                /\ memories' = memories \cup {ChatMemory(next_id, text, user_id, project_id)}
                /\ next_id' = next_id + 1
                /\ last' = [op |-> "add_chat_memory", user_id |-> user_id,
                            project_id |-> project_id, text |-> text, ret |-> None]
                /\ UNCHANGED <<documents, contains, next>>
        /\ UNCHANGED faults
        /\ UNCHANGED <<chunk_vars, calls>>

(***************************************************************************)
(* query_memories                                                          *)
(***************************************************************************)
SearchFactor == 3     \* search_k = k*3
MinKeywordLen == 3    \* len(w) > 3
MaxKeywords == 3      \* keywords[:3]
KeywordLimit == 3     \* LIMIT 3
FallbackScore == 5    \* score = 0.5, in tenths

IndexTexts(vs) == {vs.entries[i].text : i \in 1..Len(vs.entries)}

\* similarity_search_with_score: the search_k nearest entries, nearest
\* first.  d gives the distance of each stored text to the query; entries at
\* the same distance come in index order.
Nearer(es, d, i, j) ==
    \/ d[es[i].text] < d[es[j].text]
    \/ d[es[i].text] = d[es[j].text] /\ i < j

SimilaritySearch(vs, d, search_k) ==
    LET es == vs.entries
        rank(i) == 1 + Cardinality({j \in 1..Len(es) : Nearer(es, d, j, i)})
    IN  [r \in 1..Min(search_k, Len(es)) |->
            LET i == CHOOSE i \in 1..Len(es) : rank(i) = r
            IN  [text |-> es[i].text, metadata |-> es[i].metadata,
                 score |-> d[es[i].text], origin |-> <<"vector", i>>]]

\* Mutant of TenantMatch: the project is not compared.
TenantMatchUserOnly(metadata, user_id, project_id) ==
    metadata.user_id = user_id

\* if str(doc_user_id) == str(user_id) and str(doc_project_id) == str(project_id)
TenantMatch(metadata, user_id, project_id) ==
    metadata.user_id = user_id /\ metadata.project_id = project_id

\* search_with_query(search_query, search_k=k*3)
SearchWithQuery(vs, d, user_id, project_id, k) ==
    LET results  == SimilaritySearch(vs, d, SearchFactor * k)
        filtered == SelectSeq(results, LAMBDA h : TenantMatch(h.metadata, user_id, project_id))
    IN  Take(filtered, k)

typo_fixes ==
    [w \in {"fidn", "frnd", "fren", "wrk", "wrking", "drc"} |->
        CASE w \in {"fidn", "frnd", "fren"} -> "friend"
          [] w = "wrk" -> "work"
          [] w = "wrking" -> "working"
          [] w = "drc" -> "DRC"]

\* The substitution loop over query.lower(), word by word.
ExpandedQuery(query) ==
    [i \in 1..Len(query) |->
        IF query[i] \in DOMAIN typo_fixes THEN typo_fixes[query[i]] ELSE query[i]]

Changed(query) == \E i \in 1..Len(query) : query[i] \in DOMAIN typo_fixes

HitTexts(results) == {results[i].text : i \in 1..Len(results)}

\* for doc, score in extra: if doc.page_content not in existing_texts: append
RECURSIVE MergeUnique(_, _, _)
MergeUnique(results, extra, i) ==
    IF i > Len(extra) THEN results
    ELSE MergeUnique(IF extra[i].text \in HitTexts(results)
                     THEN results ELSE Append(results, extra[i]),
                     extra, i + 1)

\* keywords = [w for w in query.lower().split() if len(w) > 3]
Keywords(query) == SelectSeq(query, LAMBDA w : Len(w) > MinKeywordLen)

RECURSIVE SortById(_)
SortById(S) ==
    IF S = {} THEN <<>>
    ELSE LET m == CHOOSE x \in S : \A y \in S : x.id <= y.id
         IN  <<m>> \o SortById(S \ {m})

\* WHERE m.user_id = $user_id AND m.project_id = $project_id
\*   AND toLower(m.text) CONTAINS toLower($keyword)
KeywordMatch(m, keyword, user_id, project_id) ==
    /\ m.user_id = user_id /\ m.project_id = project_id
    /\ \E i \in 1..Len(m.text) : m.text[i] = keyword

\* The records of one keyword query (LIMIT 3), as fallback hits.
KeywordHits(mems, keyword, user_id, project_id) ==
    LET rows == Take(SortById({m \in mems : KeywordMatch(m, keyword, user_id, project_id)}),
                     KeywordLimit)
    IN  [i \in 1..Len(rows) |->
            [text |-> rows[i].text,
             metadata |-> [source |-> rows[i].source, timestamp |-> rows[i].id],
             score |-> FallbackScore, origin |-> <<"graph", rows[i].id>>]]

RECURSIVE KeywordFallback(_, _, _, _, _, _)
KeywordFallback(results, mems, keywords, i, user_id, project_id) ==
    IF i > Len(keywords) THEN results
    ELSE KeywordFallback(
            MergeUnique(results, KeywordHits(mems, keywords[i], user_id, project_id), 1),
            mems, keywords, i + 1, user_id, project_id)

\* match_percentage = int(1 / (1 + score) * 100), score in tenths
MatchPercentage(score) == (100 * 10) \div (10 + score)

\* query_memories after the two vector searches: stage1 is what
\* search_with_query(query) returned and extra what the retry with the
\* corrected query returns (read only when the retry runs).  Each returned
\* entry also carries `origin`, the index entry or Memory node it was read
\* from (not part of the returned dict).
QueryStages(vs, mems, stage1, extra, query, user_id, project_id, k) ==
    IF vs = NoStore THEN <<>>
    ELSE
    LET stage2 == IF Len(stage1) < k /\ Changed(query)
                  THEN MergeUnique(stage1, extra, 1)
                  ELSE stage1
        stage3 == IF Len(stage2) < k
                  THEN KeywordFallback(stage2, mems, Take(Keywords(query), MaxKeywords), 1,
                                       user_id, project_id)
                  ELSE stage2
        results == Take(stage3, k)
    IN  [i \in 1..Len(results) |->
            [text |-> results[i].text, metadata |-> results[i].metadata,
             score |-> results[i].score,
             match_percentage |-> MatchPercentage(results[i].score),
             origin |-> results[i].origin]]

\* query_memories.  d1 and d2 are the distances of the stored texts to the
\* query and to the typo-corrected query.
QueryMemories(vs, mems, d1, d2, query, user_id, project_id, k) ==
    QueryStages(vs, mems,
                SearchWithQuery(vs, d1, user_id, project_id, k),
                SearchWithQuery(vs, d2, user_id, project_id, k),
                query, user_id, project_id, k)

(***************************************************************************)
(* get_total_memory_count, get_memories_by_document                        *)
(***************************************************************************)
\* MATCH (m:Memory {user_id: $user_id, project_id: $project_id}) RETURN count(m)
TenantMemories(mems, user_id, project_id) ==
    {m \in mems : m.user_id = user_id /\ m.project_id = project_id}

get_total_memory_count(user_id, project_id) ==
    Cardinality(TenantMemories(memories, user_id, project_id))

\* MATCH (d:Document {user_id: ..., project_id: ...})-[:CONTAINS]->(m:Memory)
ContainedIn(d) == {m \in memories : <<d.id, m.id>> \in contains}

\* The rows get_memories_by_document can return.  collect(m.text)[0..1] is
\* the text of whichever contained Memory the store lists first: every
\* contained memory gives one possible row.
get_memories_by_document(user_id, project_id) ==
    UNION {{[source |-> d.source, doc_id |-> d.id,
             memory_count |-> Cardinality(ContainedIn(d)), preview |-> m.text] :
               m \in ContainedIn(d)} :
           d \in {x \in documents : x.user_id = user_id /\ x.project_id = project_id}}

(***************************************************************************)
(* clear_all                                                               *)
(***************************************************************************)
\* Mutant of ClearMatch: every node of the user is deleted.
ClearMatchUserOnly(n, user_id, project_id) ==
    n.user_id = user_id

\* MATCH (n {user_id: $user_id, project_id: $project_id}) DETACH DELETE n
ClearMatch(n, user_id, project_id) ==
    n.user_id = user_id /\ n.project_id = project_id

\* Mutant of RebuiltEntry: the project of the node is not carried over.
RebuiltEntryDefaultProject(m) ==
    [text |-> m.text,
     metadata |-> [source |-> m.source, doc_id |-> None, user_id |-> m.user_id,
                   project_id |-> "default", chunk_index |-> NoChunkIndex,
                   type |-> None]]

\* metadatas of the rebuild: user_id, project_id and source of the node.
RebuiltEntry(m) ==
    [text |-> m.text,
     metadata |-> [source |-> m.source, doc_id |-> None, user_id |-> m.user_id,
                   project_id |-> m.project_id, chunk_index |-> NoChunkIndex,
                   type |-> None]]

\* FAISS.from_texts over every remaining Memory node.
Rebuild(mems) ==
    LET records == SortById(mems)
    IN  IF records = <<>> THEN NoStore
        ELSE Store([i \in 1..Len(records) |-> RebuiltEntry(records[i])])

ClearAll(user_id, project_id) ==
    LET mems == {m \in memories : ~ClearMatch(m, user_id, project_id)}
        docs == {d \in documents : ~ClearMatch(d, user_id, project_id)}
    IN  /\ memories' = mems
        /\ documents' = docs
        /\ contains' = {e \in contains :
                          /\ \E d \in docs : d.id = e[1]
                          /\ \E m \in mems : m.id = e[2]}
        /\ next' = {e \in next :
                          /\ \E m \in mems : m.id = e[1]
                          /\ \E m \in mems : m.id = e[2]}
        /\ vector_store' = Rebuild(mems)
        /\ disk' = vector_store'
        /\ last' = [op |-> "clear_all", user_id |-> user_id,
                    project_id |-> project_id,
                    deleted |-> Cardinality(memories \ mems) + Cardinality(documents \ docs),
                    ret |-> None]
        /\ conv_of' = {e \in conv_of : \E m \in mems : m.id = e[1]}
        /\ UNCHANGED <<next_id, faults>>
        /\ UNCHANGED <<chunk_vars, calls>>

(***************************************************************************)
(* Failures of the external calls of add_document_memory                   *)
(***************************************************************************)
\* Caps the number of failed external calls in one behaviour.
MaxFaults == 1

\* The calls that can raise before the graph write: the embedding call made
\* inside FAISS.from_texts / add_texts (which then adds nothing), and
\* save_local (after the entries were added to the index in memory).
VectorFailures == {"embed", "save"}

VectorAfterFailure(vs, entries, point) ==
    IF point = "save" THEN AddTexts(vs, entries) ELSE vs

\* Mutant of GraphAfterVectorFailure: the graph is written before the index.
GraphWrittenFirst(g, chunks, file, user_id, project_id) ==
    GraphWrite(g, chunks, 1, file, user_id, project_id)

\* The graph after a failure of the vector part: nothing catches the
\* exception, so `with self.driver.session()` is never entered.
GraphAfterVectorFailure(g, chunks, file, user_id, project_id) == g

IngestFails(text, file, user_id, project_id, point) ==
    LET chunks == split_document(text)
        g      == GraphAfterVectorFailure(Graph, chunks, file, user_id, project_id)
    IN  /\ faults < MaxFaults
        /\ next_id + Len(chunks) - 1 <= MaxNodes
        /\ vector_store' = VectorAfterFailure(
                               vector_store,
                               DocEntries(chunks, file, user_id, project_id), point)
        /\ disk' = disk
        /\ memories' = g.memories
        /\ documents' = g.documents
        /\ contains' = g.contains
        /\ next' = g.next
        /\ next_id' = g.next_id
        /\ last' = [op |-> "add_document_memory", user_id |-> user_id,
                    project_id |-> project_id, text |-> text, doc_id |-> file,
                    first_id |-> next_id, failed |-> point, ret |-> "Exception"]
        /\ faults' = faults + 1
        /\ UNCHANGED conv_of
        /\ UNCHANGED <<chunk_vars, calls>>

\* The graph after the graph store fails while writing chunk j (counted
\* from 0): every session.run is its own auto-commit transaction, so what
\* the earlier iterations of the loop wrote stays.
GraphAfterGraphFailure(g, chunks, j, file, user_id, project_id) ==
    GraphWrite(g, SubSeq(chunks, 1, j), 1, file, user_id, project_id)

\* add_document_memory when the CREATE statement of chunk j raises: the
\* index was extended and saved before the graph loop started.
IngestFailsInGraph(text, file, user_id, project_id, j) ==
    LET chunks == split_document(text)
        g      == GraphAfterGraphFailure(Graph, chunks, j, file, user_id, project_id)
    IN  /\ faults < MaxFaults
        /\ j \in 0..(Len(chunks) - 1)
        /\ next_id + Len(chunks) - 1 <= MaxNodes
        /\ vector_store' = AddTexts(vector_store, DocEntries(chunks, file, user_id, project_id))
        /\ disk' = vector_store'
        /\ memories' = g.memories
        /\ documents' = g.documents
        /\ contains' = g.contains
        /\ next' = g.next
        /\ next_id' = g.next_id
        /\ last' = [op |-> "add_document_memory", user_id |-> user_id,
                    project_id |-> project_id, text |-> text, doc_id |-> file,
                    first_id |-> next_id, failed |-> "graph", failed_chunk |-> j,
                    ret |-> "Exception"]
        /\ faults' = faults + 1
        /\ UNCHANGED conv_of
        /\ UNCHANGED <<chunk_vars, calls>>

\* clear_all whose rebuild fails: the nodes of the tenant are deleted, the
\* snapshot directory is removed, and FAISS.from_texts raises before
\* self.vector_store is assigned, so the service keeps the index it had.
\* The rebuild is reached only when some Memory node is left.
VectorAfterFailedRebuild(vs) == vs

ClearAllFails(user_id, project_id) ==
    LET mems == {m \in memories : ~ClearMatch(m, user_id, project_id)}
        docs == {d \in documents : ~ClearMatch(d, user_id, project_id)}
    IN  /\ faults < MaxFaults
        /\ mems # {}
        /\ memories' = mems
        /\ documents' = docs
        /\ contains' = {e \in contains :
                          /\ \E d \in docs : d.id = e[1]
                          /\ \E m \in mems : m.id = e[2]}
        /\ next' = {e \in next :
                          /\ \E m \in mems : m.id = e[1]
                          /\ \E m \in mems : m.id = e[2]}
        /\ vector_store' = VectorAfterFailedRebuild(vector_store)
        /\ disk' = NoStore
        /\ last' = [op |-> "clear_all", user_id |-> user_id,
                    project_id |-> project_id,
                    deleted |-> Cardinality(memories \ mems) + Cardinality(documents \ docs),
                    failed |-> "rebuild", ret |-> "Exception"]
        /\ conv_of' = {e \in conv_of : \E m \in mems : m.id = e[1]}
        /\ faults' = faults + 1
        /\ UNCHANGED next_id
        /\ UNCHANGED <<chunk_vars, calls>>

(***************************************************************************)
(* MemoryService(): _load_vector_store                                     *)
(***************************************************************************)
\* The index the constructor leaves in self.vector_store: the snapshot when
\* the directory exists and FAISS.load_local succeeds, None otherwise.
LoadVectorStore(snapshot, load_ok) ==
    IF snapshot.exists /\ load_ok THEN snapshot ELSE NoStore

\* The process is started again over the same graph and the same directory.
Restart(load_ok) ==
    /\ ~load_ok => (disk.exists /\ faults < MaxFaults)
    /\ vector_store' = LoadVectorStore(disk, load_ok)
    /\ faults' = IF load_ok THEN faults ELSE faults + 1
    /\ UNCHANGED <<disk, memories, documents, contains, next, next_id, last, conv_of>>
    /\ UNCHANGED <<chunk_vars, calls>>

(***************************************************************************)
(* The chat endpoints                                                      *)
(***************************************************************************)
\* k of the endpoints' calls of query_memories (the default).
DefaultK == 5

\* Conversation rows <<id, user_id, project_id>>: two conversations of one
\* user in one project.
Conversations ==
    {[id |-> "c1", user_id |-> "u1", project_id |-> "p1"],
     [id |-> "c2", user_id |-> "u1", project_id |-> "p1"]}

\* POST /projects/{project_id}/memory/chat: the turn belongs to no conversation.
ProjectChat(query, answer, user_id, project_id) ==
    /\ AddChat(query, answer, user_id, project_id)
    /\ UNCHANGED conv_of

\* POST /conversations/{conversation_id}/chat, step 6: the turn of this
\* conversation is recorded under the conversation's user and project.
ChatInConversation(conv, query, answer) ==
    /\ AddChat(query, answer, conv.user_id, conv.project_id)
    /\ conv_of' = IF vector_store = NoStore THEN conv_of
                  ELSE conv_of \cup {<<next_id, conv.id>>}

(***************************************************************************)
(* The service                                                             *)
(***************************************************************************)
ChunkIdle ==
    /\ c_in = [sents |-> <<>>, final_period |-> FALSE]
    /\ c_par = <<chunk_word_limit, overlap>>
    /\ c_i = 0 /\ c_loop = LoopInit /\ c_trace = <<>> /\ c_pc = "done"

\* MemoryService() with no faiss_index directory and an empty graph.
Init == StoreIdle /\ ChunkIdle

Next ==
    \/ \E f \in Uploads, t \in Tenants : Ingest(f[2], f[1], t[1], t[2])
    \/ \E c \in Turns, t \in Tenants : ProjectChat(c[1], c[2], t[1], t[2])
    \/ \E t \in Tenants : ClearAll(t[1], t[2])
    \/ \E conv \in Conversations, c \in Turns : ChatInConversation(conv, c[1], c[2])

\* The service while every external call succeeds.
Spec == Init /\ [][Next]_vars

\* Caps the number of Memory nodes in the behaviours with failures.
MaxFaultNodes == 3

\* The service with failing external calls and restarts of the process.
NextFaults ==
    \/ \E f \in Uploads, t \in Tenants :
           Ingest(f[2], f[1], t[1], t[2]) /\ next_id' <= MaxFaultNodes + 1
    \/ \E c \in Turns, t \in Tenants :
           ProjectChat(c[1], c[2], t[1], t[2]) /\ next_id' <= MaxFaultNodes + 1
    \/ \E t \in Tenants : ClearAll(t[1], t[2])
    \/ \E f \in Uploads, t \in Tenants, point \in VectorFailures :
           IngestFails(f[2], f[1], t[1], t[2], point) /\ next_id <= MaxFaultNodes
    \/ \E f \in Uploads, t \in Tenants, j \in 0..1 :
           IngestFailsInGraph(f[2], f[1], t[1], t[2], j) /\ next_id' <= MaxFaultNodes + 1
    \/ \E t \in Tenants : ClearAllFails(t[1], t[2])
    \/ \E load_ok \in BOOLEAN : Restart(load_ok)

SpecFaults == Init /\ [][NextFaults]_vars

(***************************************************************************)
(* Concurrent calls                                                        *)
(*                                                                         *)
(* MemoryService has no lock: when one add_document_memory and one         *)
(* clear_all run at the same time, each does its reads and writes of the   *)
(* index, the directory and the graph in program order, and the other call *)
(* can run between any two of them.                                        *)
(***************************************************************************)
\* Caps the number of Memory nodes in the behaviours with concurrent calls.
MaxRaceNodes == 3

\* add_document_memory up to the save of the snapshot: the chunks are added
\* to self.vector_store (created when None) and written to the directory.
IngestIndex(text, file, user_id, project_id) ==
    LET chunks == split_document(text)
    IN  /\ calls.ingest.pc = "idle"
        /\ next_id + Len(chunks) - 1 <= MaxRaceNodes
        /\ vector_store' = AddTexts(vector_store, DocEntries(chunks, file, user_id, project_id))
        /\ disk' = vector_store'
        /\ calls' = [calls EXCEPT !.ingest =
                        [pc |-> "graph", text |-> text, chunks |-> chunks, file |-> file,
                         user_id |-> user_id, project_id |-> project_id]]
        /\ UNCHANGED <<memories, documents, contains, next, next_id, last, faults, conv_of>>
        /\ UNCHANGED chunk_vars

\* The rest of add_document_memory: the graph write and the return.
IngestGraph ==
    LET c == calls.ingest
        g == GraphWrite(Graph, c.chunks, 1, c.file, c.user_id, c.project_id)
    IN  /\ c.pc = "graph"
        /\ memories' = g.memories
        /\ documents' = g.documents
        /\ contains' = g.contains
        /\ next' = g.next
        /\ next_id' = g.next_id
        /\ last' = [op |-> "add_document_memory", user_id |-> c.user_id,
                    project_id |-> c.project_id, text |-> c.text, doc_id |-> c.file,
                    first_id |-> next_id,
                    ret |-> [chunks |-> Len(c.chunks), doc_id |-> c.file]]
        /\ calls' = [calls EXCEPT !.ingest = NoCalls.ingest]
        /\ UNCHANGED <<vector_store, disk, faults, conv_of>>
        /\ UNCHANGED chunk_vars

\* clear_all, first statement: DETACH DELETE of the tenant's nodes.
ClearDelete(user_id, project_id) ==
    LET mems == {m \in memories : ~ClearMatch(m, user_id, project_id)}
        docs == {d \in documents : ~ClearMatch(d, user_id, project_id)}
    IN  /\ calls.clear.pc = "idle"
        /\ memories' = mems
        /\ documents' = docs
        /\ contains' = {e \in contains :
                          /\ \E d \in docs : d.id = e[1]
                          /\ \E m \in mems : m.id = e[2]}
        /\ next' = {e \in next :
                          /\ \E m \in mems : m.id = e[1]
                          /\ \E m \in mems : m.id = e[2]}
        /\ conv_of' = {e \in conv_of : \E m \in mems : m.id = e[1]}
        /\ calls' = [calls EXCEPT
                        !.clear = [pc |-> "rmtree", user_id |-> user_id,
                                   project_id |-> project_id,
                                   deleted |-> Cardinality(memories \ mems)
                                                 + Cardinality(documents \ docs),
                                   records |-> {}],
                        !.cleared = @ \cup {<<user_id, project_id>>}]
        /\ UNCHANGED <<vector_store, disk, next_id, last, faults>>
        /\ UNCHANGED chunk_vars

\* shutil.rmtree of the snapshot directory, when it exists.
ClearRmtree ==
    /\ calls.clear.pc = "rmtree"
    /\ disk' = NoStore
    /\ calls' = [calls EXCEPT !.clear.pc = "fetch"]
    /\ UNCHANGED <<vector_store, memories, documents, contains, next, next_id, last,
                   faults, conv_of>>
    /\ UNCHANGED chunk_vars

\* records = list(MATCH (m:Memory) RETURN ...): the Memory nodes of this
\* moment.
ClearFetch ==
    /\ calls.clear.pc = "fetch"
    /\ calls' = [calls EXCEPT !.clear.pc = "rebuild", !.clear.records = memories]
    /\ UNCHANGED <<vector_store, disk, memories, documents, contains, next, next_id,
                   last, faults, conv_of>>
    /\ UNCHANGED chunk_vars

\* The end of clear_all: with no record, self.vector_store = None and the
\* directory is not touched again; otherwise the index is rebuilt from the
\* fetched records and saved.
ClearRebuild ==
    LET c == calls.clear
    IN  /\ c.pc = "rebuild"
        /\ vector_store' = Rebuild(c.records)
        /\ disk' = IF c.records = {} THEN disk ELSE vector_store'
        /\ last' = [op |-> "clear_all", user_id |-> c.user_id,
                    project_id |-> c.project_id, deleted |-> c.deleted, ret |-> None]
        /\ calls' = [calls EXCEPT !.clear = NoCalls.clear]
        /\ UNCHANGED <<memories, documents, contains, next, next_id, faults, conv_of>>
        /\ UNCHANGED chunk_vars

NextRace ==
    \/ \E f \in Uploads, t \in Tenants : IngestIndex(f[2], f[1], t[1], t[2])
    \/ IngestGraph
    \/ \E t \in Tenants : ClearDelete(t[1], t[2])
    \/ ClearRmtree
    \/ ClearFetch
    \/ ClearRebuild

\* The service with one add_document_memory and one clear_all at a time,
\* running concurrently.
SpecRace == Init /\ [][NextRace]_vars

(***************************************************************************)
(* Calls of query_memories in the current state                            *)
(***************************************************************************)
\* query_memories reads the two stores and writes nothing: a call is the
\* value of QueryMemories in the state it is made in.  The distances the
\* index reports for a query are not the service's to choose, so every
\* assignment of distances to the stored texts is considered.
DistFns == [IndexTexts(vector_store) -> Distances]

\* What search_with_query can return to a tenant in this state.
VectorOutcomes(user_id, project_id, k) ==
    {SearchWithQuery(vector_store, d, user_id, project_id, k) : d \in DistFns}

\* QueryMemories reads d1 and d2 only through the two search_with_query
\* results, so its calls are enumerated by those results.
SearchCall(q, t, k, stage1, extra) ==
    [query |-> q, user_id |-> t[1], project_id |-> t[2], k |-> k, stage1 |-> stage1,
     ret |-> QueryStages(vector_store, memories, stage1, extra, q, t[1], t[2], k)]

EverySearch(P(_)) ==
    \A t \in Tenants, k \in Ks :
        LET outs == VectorOutcomes(t[1], t[2], k)
        IN  \A q \in Queries, stage1 \in outs :
                \A extra \in (IF Changed(q) THEN outs ELSE {<<>>}) :
                    P(SearchCall(q, t, k, stage1, extra))

SomeSearch(P(_)) ==
    \E t \in Tenants, k \in Ks :
        LET outs == VectorOutcomes(t[1], t[2], k)
        IN  \E q \in Queries, stage1 \in outs :
                \E extra \in (IF Changed(q) THEN outs ELSE {<<>>}) :
                    P(SearchCall(q, t, k, stage1, extra))

\* search_with_query around a failing similarity_search_with_score (the
\* embedding of the query or the index search raises): `except Exception`
\* logs a warning and returns [].
SearchOutcome(raises, hits) == IF raises THEN <<>> ELSE hits

\* A call of query_memories all of whose vector searches raise, as its
\* caller sees it: `error` says whether the call ended with an exception.
\* Nothing after search_with_query re-raises, so the call returns a list.
FailedSearch(q, t, k) ==
    [query |-> q, user_id |-> t[1], project_id |-> t[2], k |-> k,
     error |-> FALSE,
     ret   |-> QueryStages(vector_store, memories,
                           SearchOutcome(TRUE, <<>>), SearchOutcome(TRUE, <<>>),
                           q, t[1], t[2], k)]

\* Step 3 of the same endpoint: what query_memories can return to a chat in
\* this conversation.
ConversationSearches(conv, query) ==
    LET outs == VectorOutcomes(conv.user_id, conv.project_id, DefaultK)
    IN  {QueryStages(vector_store, memories, stage1, extra, query,
                     conv.user_id, conv.project_id, DefaultK) :
            stage1 \in outs, extra \in (IF Changed(query) THEN outs ELSE {<<>>})}

\* The stored item a returned entry was read from carries this tenant.
OriginTenantIs(h, user_id, project_id) ==
    IF h.origin[1] = "vector"
    THEN LET e == vector_store.entries[h.origin[2]]
         IN  e.metadata.user_id = user_id /\ e.metadata.project_id = project_id
    ELSE \E m \in memories :
            m.id = h.origin[2] /\ m.user_id = user_id /\ m.project_id = project_id

TenantEntries(user_id, project_id) ==
    {i \in 1..Len(vector_store.entries) :
        /\ vector_store.entries[i].metadata.user_id = user_id
        /\ vector_store.entries[i].metadata.project_id = project_id}

(***************************************************************************)
(* Claims                                                                  *)
(***************************************************************************)
\* C1: every entry a search scoped to a tenant returns was read from an index
\* entry or a Memory node stored under exactly that user_id and project_id,
\* whatever distances the index reports, and a tenant with nothing stored
\* gets the empty list.
C1_SearchIsolation ==
    EverySearch(LAMBDA c :
        /\ \A i \in 1..Len(c.ret) : OriginTenantIs(c.ret[i], c.user_id, c.project_id)
        /\ (/\ TenantMemories(memories, c.user_id, c.project_id) = {}
            /\ TenantEntries(c.user_id, c.project_id) = {})
           => c.ret = <<>>)

\* C1 witness: in one state, a search returns a tenant's index entry although
\* an entry of another tenant is strictly nearer, and a search returns a
\* tenant's memory through the keyword fallback.
C1_Witness ==
    /\ \E t \in Tenants, q \in Queries, k \in Ks, d \in DistFns :
          LET r == QueryMemories(vector_store, memories, d, d, q, t[1], t[2], k)
          IN  \E i \in 1..Len(r) :
                 /\ r[i].origin[1] = "vector"
                 /\ \E j \in 1..Len(vector_store.entries) :
                       /\ ~TenantMatch(vector_store.entries[j].metadata, t[1], t[2])
                       /\ d[vector_store.entries[j].text] < r[i].score
    /\ SomeSearch(LAMBDA c : \E i \in 1..Len(c.ret) : c.ret[i].origin[1] = "graph")

\* C2: a clear_all step of tenant A leaves no Document and no Memory node
\* with A's user_id and project_id, and get_total_memory_count of every other
\* tenant is what it was before the step.
C2_ClearRemovesOnlyTenant ==
    [][\A a \in Tenants :
          ClearAll(a[1], a[2]) =>
             /\ \A n \in memories' \cup documents' :
                   ~(n.user_id = a[1] /\ n.project_id = a[2])
             /\ \A b \in Tenants \ {a} :
                   get_total_memory_count(b[1], b[2])' = get_total_memory_count(b[1], b[2])
      ]_vars

\* C2 witness: clear_all has just deleted nodes while another tenant still
\* has memories.
C2_Witness ==
    /\ last.op = "clear_all"
    /\ last.deleted > 0
    /\ \E b \in Tenants :
          /\ b # <<last.user_id, last.project_id>>
          /\ get_total_memory_count(b[1], b[2]) > 0

\* C3 (as claimed): the NEXT edges an add_document_memory step creates are
\* exactly the edges from the node of chunk i to the node of chunk i+1 of
\* that call.
C3_NextEdgesAreTheChain ==
    [][(last'.op = "add_document_memory" /\ next_id' > next_id) =>
          next' \ next = {<<id, id + 1>> : id \in next_id..(next_id' - 2)}
      ]_vars

\* C4 (as claimed): a Document node CONTAINS only Memory nodes of its own
\* user_id and project_id (one Document per doc_id and tenant).
C4_DocumentPerTenant ==
    \A e \in contains :
        \A d \in documents, m \in memories :
            (d.id = e[1] /\ m.id = e[2]) =>
                (d.user_id = m.user_id /\ d.project_id = m.project_id)

\* C5 (as claimed): every row of get_memories_by_document(T) counts exactly
\* T's own Memory nodes of that document and previews one of them.
C5_CountsOwnMemoriesOnly ==
    \A t \in Tenants :
        \A row \in get_memories_by_document(t[1], t[2]) :
            LET own == {m \in TenantMemories(memories, t[1], t[2]) :
                            <<row.doc_id, m.id>> \in contains}
            IN  /\ row.memory_count = Cardinality(own)
                /\ \E m \in own : m.text = row.preview

\* Words of a chunk: the marker and punctuation are not words.
ChunkWords(chunk) == SelectSeq(chunk, LAMBDA w : w # NEG /\ w # Period)
HasMarker(chunk) == chunk # <<>> /\ chunk[1] = NEG

\* C6 (as claimed): every chunk whose text contains a negation cue carries
\* the [NEG] marker.
C6_CueImpliesMarker ==
    \A i \in 1..Len(c_loop.chunks) :
        ContainsCue(c_loop.chunks[i]) => HasMarker(c_loop.chunks[i])

\* C7 (as claimed): a chunk whose own text contains no negation cue never
\* carries the [NEG] marker.
C7_MarkerImpliesCue ==
    \A i \in 1..Len(c_loop.chunks) :
        HasMarker(c_loop.chunks[i]) => ContainsCue(c_loop.chunks[i])

\* C8 (as claimed): every returned chunk has at least 5 words, unless it is
\* the single chunk of a text without sentence punctuation.
C8_FiveWordsUnlessNoBoundary ==
    c_pc = "done" =>
        \A i \in 1..Len(c_loop.chunks) :
            \/ Len(ChunkWords(c_loop.chunks[i])) >= MinChunkWords
            \/ (Len(c_loop.chunks) = 1 /\ \A j \in 1..Len(c_text) : c_text[j] # Period)

\* C8 (amended): every returned chunk has at least 5 words, unless it is the
\* single fallback chunk, returned when the sentence loop and the remaining
\* chunk produced nothing (with or without sentence punctuation in the text).
C8_FiveWordsUnlessFallback ==
    c_pc = "done" =>
        \A i \in 1..Len(c_loop.chunks) :
            \/ Len(ChunkWords(c_loop.chunks[i])) >= MinChunkWords
            \/ (Len(c_loop.chunks) = 1 /\ c_trace[i] = "fallback")

\* C8 witness: a text with sentence punctuation was chunked into the single
\* fallback chunk of fewer than 5 words.
C8_Witness ==
    /\ c_pc = "done"
    /\ c_trace = <<"fallback">>
    /\ Len(ChunkWords(c_loop.chunks[1])) < MinChunkWords
    /\ \E j \in 1..Len(c_text) : c_text[j] = Period

\* C9: an add_document_memory step of N chunks adds N Memory nodes to the
\* tenant's total count, returns N, and leaves the Document nodes as they
\* were when a Document with that doc_id existed before the call (else it
\* adds that one Document).
C9_IngestNotIdempotent ==
    [][\A f \in Uploads, t \in Tenants :
          Ingest(f[2], f[1], t[1], t[2]) =>
             LET n == Len(split_document(f[2]))
             IN  /\ get_total_memory_count(t[1], t[2])'
                       = get_total_memory_count(t[1], t[2]) + n
                 /\ last'.ret.chunks = n
                 /\ Cardinality(memories') = Cardinality(memories) + n
                 /\ IF \E d \in documents : d.id = f[1]
                    THEN documents' = documents
                    ELSE \E d \in documents' :
                            /\ d.id = f[1]
                            /\ documents' = documents \cup {d}
      ]_vars

\* C9 witness: the same text has just been ingested again for the same
\* tenant: the new nodes repeat older ones, and the one Document with that
\* doc_id is older than this call.
C9_Witness ==
    /\ last.op = "add_document_memory"
    /\ \E m1, m2 \in memories :
          /\ m1.id < last.first_id /\ m2.id >= last.first_id
          /\ m1.text = m2.text /\ m1.chunk_index = m2.chunk_index
          /\ m1.user_id = m2.user_id /\ m1.project_id = m2.project_id
    /\ \E d \in documents :
          /\ d.id = last.doc_id /\ d.timestamp < last.first_id
          /\ \A x \in documents : x.id = last.doc_id => x = d

\* C10 (as claimed): no list returned by a search holds two entries with the
\* same text.
C10_NoDuplicateTexts ==
    EverySearch(LAMBDA c :
        \A i, j \in 1..Len(c.ret) : c.ret[i].text = c.ret[j].text => i = j)

\* C11 (as claimed): in every list a search returns, the raw score of each
\* keyword-fallback hit is a larger distance than the raw score of every
\* vector-index hit of that list.
C11_FallbackScoresWorst ==
    EverySearch(LAMBDA c :
        \A i, j \in 1..Len(c.ret) :
            (c.ret[i].origin[1] = "graph" /\ c.ret[j].origin[1] = "vector")
                => c.ret[i].score > c.ret[j].score)

\* C12 (as claimed): every returned entry has match_percentage equal to
\* 100 / (1 + raw_score) rounded to the nearest integer, and within a list a
\* larger raw score never has a larger match_percentage.
C12_PercentageIsRounded ==
    EverySearch(LAMBDA c :
        \A i \in 1..Len(c.ret) :
            LET den == 10 + c.ret[i].score     \* 1 + raw_score, in tenths
            IN  /\ c.ret[i].score >= 0
                /\ c.ret[i].match_percentage = (2 * 1000 + den) \div (2 * den)
                /\ \A j \in 1..Len(c.ret) :
                      c.ret[i].score <= c.ret[j].score
                          => c.ret[i].match_percentage >= c.ret[j].match_percentage)

\* C13: a call of add_document_memory in which the embedding call, the index
\* add or the snapshot save fails ends with the exception and leaves the
\* graph store as it was: no Document node, Memory node, CONTAINS edge or
\* NEXT edge is added.
C13_VectorFailureWritesNoGraph ==
    [][\A f \in Uploads, t \in Tenants, point \in VectorFailures :
          IngestFails(f[2], f[1], t[1], t[2], point) =>
             /\ last'.ret = "Exception"
             /\ memories' = memories /\ documents' = documents
             /\ contains' = contains /\ next' = next
      ]_vars

\* C13 witness: an ingest has just failed at the snapshot save, after its
\* chunks were added to the index in memory, over a graph that already
\* holds memories.
C13_Witness ==
    /\ last.op = "add_document_memory"
    /\ "failed" \in DOMAIN last /\ last.failed = "save"
    /\ memories # {}
    /\ Len(vector_store.entries) > Cardinality(memories)

\* C14 (as claimed): when the service holds no vector index while the graph
\* holds memories of the tenant whose text contains a query token longer
\* than 3 characters, the search returns such a memory (through the keyword
\* fallback) and not the empty list.
C14_DegradesToKeywordFallback ==
    EverySearch(LAMBDA c :
        LET found == {m \in memories :
                        \E i \in 1..Len(c.query) :
                            /\ Len(c.query[i]) > MinKeywordLen
                            /\ KeywordMatch(m, c.query[i], c.user_id, c.project_id)}
        IN  (vector_store = NoStore /\ found # {})
                => \E i \in 1..Len(c.ret) : \E m \in found : c.ret[i].text = m.text)

\* C15 (as claimed): a search during which the embedding call or the vector
\* search fails ends with an error for the caller; it does not return a
\* normal result list.
C15_SearchFailureSurfaces ==
    vector_store.exists =>
        \A t \in Tenants, q \in Queries, k \in Ks : FailedSearch(q, t, k).error

\* C16: every successful add_chat_memory step adds exactly one index entry
\* and exactly one Memory node, both with the caller's user_id and
\* project_id and the concatenated query/answer text; the node's priority is
\* the fixed chat priority, lower than that of every document chunk, and
\* no Document node, CONTAINS edge or NEXT edge is created.
C16_ChatAddsOneMemory ==
    [][\A c \in Turns, t \in Tenants :
          (AddChat(c[1], c[2], t[1], t[2]) /\ vector_store.exists) =>
             LET text == ChatText(c[1], c[2])
                 n    == Len(vector_store.entries)
             IN  /\ Len(vector_store'.entries) = n + 1
                 /\ SubSeq(vector_store'.entries, 1, n) = vector_store.entries
                 /\ vector_store'.entries[n + 1].text = text
                 /\ vector_store'.entries[n + 1].metadata.user_id = t[1]
                 /\ vector_store'.entries[n + 1].metadata.project_id = t[2]
                 /\ \E m \in memories' :
                       /\ m \notin memories /\ memories' = memories \cup {m}
                       /\ m.text = text /\ m.user_id = t[1] /\ m.project_id = t[2]
                       /\ m.priority = ChatPriority /\ m.priority < DocPriority
                       /\ \A x \in memories : x.chunk_index # NoChunkIndex
                                                 => m.priority < x.priority
                       /\ \A e \in contains' : e[2] # m.id
                       /\ \A e \in next' : e[1] # m.id /\ e[2] # m.id
                 /\ documents' = documents /\ contains' = contains /\ next' = next
      ]_vars

\* C16 witness: a turn has just been recorded next to document chunks.
C16_Witness ==
    /\ last.op = "add_chat_memory" /\ last.ret = None
    /\ \E m \in memories : m.id = next_id - 1 /\ m.text = last.text
    /\ \E x \in memories : x.chunk_index # NoChunkIndex

\* C17: after a clear_all step of tenant A the index holds exactly one entry
\* per Memory node left in the graph, with the node's text, user_id and
\* project_id, and no entry of A; the snapshot on disk is that index; when
\* no Memory node is left there is no index and no snapshot.
C17_RebuildMirrorsGraph ==
    [][\A a \in Tenants :
          ClearAll(a[1], a[2]) =>
             LET es == vector_store'.entries
                 Same(e, m) == /\ e.text = m.text
                               /\ e.metadata.user_id = m.user_id
                               /\ e.metadata.project_id = m.project_id
             IN  /\ Len(es) = Cardinality(memories')
                 /\ \A m \in memories' :
                       Cardinality({i \in 1..Len(es) : Same(es[i], m)})
                          = Cardinality({x \in memories' :
                               /\ x.text = m.text /\ x.user_id = m.user_id
                               /\ x.project_id = m.project_id})
                 /\ \A i \in 1..Len(es) : ~TenantMatch(es[i].metadata, a[1], a[2])
                 /\ vector_store'.exists <=> memories' # {}
                 /\ disk' = vector_store'
      ]_vars

\* C17 witness: clear_all has just deleted a tenant's nodes and rebuilt the
\* index from the memories of two other tenants.
C17_Witness ==
    /\ last.op = "clear_all" /\ last.deleted > 0
    /\ vector_store.exists
    /\ \E m1, m2 \in memories : m1.user_id # m2.user_id

\* C18 (as claimed): a search made for a chat in a conversation returns no
\* memory that was recorded by a chat in another conversation of the same
\* user and project.
C18_ConversationScoped ==
    \A conv \in Conversations, q \in Queries :
        \A r \in ConversationSearches(conv, q) :
            \A i \in 1..Len(r) :
                LET nodes == {m \in TenantMemories(memories, conv.user_id, conv.project_id) :
                                 m.text = r[i].text}
                IN  \/ nodes = {}
                    \/ \E m \in nodes : \A e \in conv_of : e[1] = m.id => e[2] = conv.id

\* C19 (as claimed): when the text is not empty and the sentence loop and
\* the remaining chunk produce no chunk, the chunker returns exactly the
\* whole text as one chunk (marked when it contains a cue); it returns the
\* empty list only for an empty text.
C19_FallbackWholeText ==
    c_pc = "done" =>
        /\ (c_text # <<>> /\ \A i \in 1..Len(c_trace) : c_trace[i] = "fallback")
               => c_loop.chunks = <<Marked(c_text)>>
        /\ c_loop.chunks = <<>> => c_text = <<>>

\* C20 (as claimed): a text whose sentences have between 5 and chunk_size
\* words in total is returned as exactly one chunk, marked exactly when a
\* sentence contains a cue, and holding every sentence verbatim: the words
\* and the sentence punctuation of the text, in order (the punctuation
\* after the last sentence may be missing).
C20_ShortTextOneVerbatimChunk ==
    c_pc = "done" =>
        LET total == Len(ChunkWords(c_text))
        IN  (total >= MinChunkWords /\ total <= c_par[1]) =>
               /\ Len(c_loop.chunks) = 1
               /\ LET chunk == c_loop.chunks[1]
                      body  == IF HasMarker(chunk) THEN Tail(chunk) ELSE chunk
                  IN  /\ HasMarker(chunk) <=> \E i \in 1..Len(c_sents) : ContainsCue(c_sents[i])
                      /\ body = c_text \/ body \o <<Period>> = c_text

\* C21 (as claimed): a clear_all step of tenant A keeps the payload of every
\* index entry of the other tenants: after the rebuild the index holds an
\* entry with the same text, user_id, project_id, source, doc_id and
\* chunk_index.
C21_RebuildKeepsPayload ==
    [][\A a \in Tenants :
          ClearAll(a[1], a[2]) =>
             \A i \in 1..Len(vector_store.entries) :
                LET e == vector_store.entries[i]
                IN  ~TenantMatch(e.metadata, a[1], a[2]) =>
                       \E j \in 1..Len(vector_store'.entries) :
                          LET r == vector_store'.entries[j]
                          IN  /\ r.text = e.text
                              /\ r.metadata.user_id = e.metadata.user_id
                              /\ r.metadata.project_id = e.metadata.project_id
                              /\ r.metadata.source = e.metadata.source
                              /\ r.metadata.doc_id = e.metadata.doc_id
                              /\ r.metadata.chunk_index = e.metadata.chunk_index
      ]_vars

\* C22 (as claimed): after each sentence the loop has processed, the working
\* buffer holds fewer than 1.5 x chunk_size words, and no emitted chunk has
\* more than 1.5 x chunk_size words (the marker is not a word).
C22_BufferBounded ==
    /\ c_i > 0 => 2 * Len(c_loop.current_chunk) < 3 * c_par[1]
    /\ \A i \in 1..Len(c_loop.chunks) :
          2 * Len(ChunkWords(c_loop.chunks[i])) <= 3 * c_par[1]

\* C23 (as claimed): when the sentence about to be processed triggers the
\* natural flush, the buffer the flush leaves is the last
\* min(overlap, length of the flushed buffer) words of the flushed buffer
\* followed by the words of that sentence.
C23_OverlapFromFlushedBuffer ==
    (c_pc = "loop" /\ c_i < Len(c_sents)) =>
        LET words == c_sents[c_i + 1]
            buf   == c_loop.current_chunk
            n     == Min(c_par[2], Len(buf))
        IN  NaturalFlush(c_loop, words, c_par[1]) =>
               Accumulate(c_loop, words, c_par[1], c_par[2]).current_chunk
                  = SubSeq(buf, Len(buf) - n + 1, Len(buf)) \o words

\* C24 (as claimed): when the graph store fails while writing chunk j of an
\* add_document_memory call, nothing that call wrote for the chunks before j
\* remains: the graph is what it was before the call.
C24_GraphWriteIsAtomic ==
    [][\A f \in Uploads, t \in Tenants, j \in 0..1 :
          IngestFailsInGraph(f[2], f[1], t[1], t[2], j) =>
             /\ memories' = memories /\ documents' = documents
             /\ contains' = contains /\ next' = next
      ]_vars

\* C25: while every call succeeds, the index and the graph agree: every
\* (text, user_id, project_id) occurs in as many index entries as Memory
\* nodes.
C25_IndexAgreesWithGraph ==
    LET es == vector_store.entries
        Key(x) == <<x.text, x.user_id, x.project_id>>
        EKey(e) == <<e.text, e.metadata.user_id, e.metadata.project_id>>
        keys == {Key(m) : m \in memories} \cup {EKey(es[i]) : i \in 1..Len(es)}
    IN  \A key \in keys :
           Cardinality({i \in 1..Len(es) : EKey(es[i]) = key})
              = Cardinality({m \in memories : Key(m) = key})

\* C25 witness: after a clear_all, the stores hold the same text twice for
\* one tenant (two ingests), next to a memory of another tenant.
C25_Witness ==
    /\ last.op = "clear_all" /\ last.deleted > 0
    /\ \E m1, m2 \in memories :
          /\ m1.id # m2.id /\ m1.text = m2.text
          /\ m1.user_id = m2.user_id /\ m1.project_id = m2.project_id
    /\ \E m1, m2 \in memories : m1.project_id # m2.project_id

\* C26 (as claimed): the Memory nodes one Document node CONTAINS have
\* pairwise distinct chunk_index values.
C26_DistinctChunkIndex ==
    \A d \in documents :
        \A m1, m2 \in ContainedIn(d) :
            m1.id # m2.id => m1.chunk_index # m2.chunk_index

\* C27 (as claimed): add_chat_memory succeeds in every state of the service,
\* also when no vector index exists: a call never ends in an exception.
C27_ChatAlwaysSucceeds ==
    last.op = "add_chat_memory" => last.ret = None

\* C29 (as claimed): after a clear_all of tenant A whose rebuild failed, the
\* service no longer serves the old index: a search scoped to A returns
\* nothing that was deleted, and every index entry has a surviving Memory
\* node with its text, user_id and project_id.
C29_FailedClearStopsServing ==
    (last.op = "clear_all" /\ "failed" \in DOMAIN last) =>
        /\ EverySearch(LAMBDA c :
              (c.user_id = last.user_id /\ c.project_id = last.project_id)
                 => c.ret = <<>>)
        /\ \A i \in 1..Len(vector_store.entries) :
              LET e == vector_store.entries[i]
              IN  \E m \in memories :
                     /\ m.text = e.text
                     /\ m.user_id = e.metadata.user_id
                     /\ m.project_id = e.metadata.project_id

\* The index of a run in which only this tenant stored anything: its entries,
\* in the order they were added.
OwnIndex(user_id, project_id) ==
    LET own == SelectSeq(vector_store.entries,
                         LAMBDA e : TenantMatch(e.metadata, user_id, project_id))
    IN  IF own = <<>> THEN NoStore ELSE Store(own)

\* What the caller reads of a returned list: text, score and percentage.
Returned(r) ==
    [i \in 1..Len(r) |->
        [text |-> r[i].text, score |-> r[i].score,
         match_percentage |-> r[i].match_percentage]]

\* C30 (as claimed): for every query, k and distances, the list a search
\* scoped to a tenant returns is the list it returns over that tenant's
\* stored data alone: what other tenants have stored changes nothing.
C30_SearchNonInterference ==
    \A t \in Tenants, q \in Queries, k \in Ks :
        \A d1 \in DistFns, d2 \in DistFns :
            Returned(QueryMemories(vector_store, memories, d1, d2, q, t[1], t[2], k))
              = Returned(QueryMemories(OwnIndex(t[1], t[2]),
                                       TenantMemories(memories, t[1], t[2]),
                                       d1, d2, q, t[1], t[2], k))


\* C28 (as claimed): when an add_document_memory and a clear_all of another
\* tenant have run concurrently and both have returned, every Memory node of
\* a tenant that was never cleared has an entry with its text, user_id and
\* project_id in the index in memory and in the snapshot on disk.
C28_RebuildKeepsConcurrentIngest ==
    LET Has(vs, m) ==
            \E i \in 1..Len(vs.entries) :
                /\ vs.entries[i].text = m.text
                /\ vs.entries[i].metadata.user_id = m.user_id
                /\ vs.entries[i].metadata.project_id = m.project_id
    IN  (calls.ingest.pc = "idle" /\ calls.clear.pc = "idle") =>
            \A m \in memories :
                <<m.user_id, m.project_id>> \notin calls.cleared =>
                    Has(vector_store, m) /\ Has(disk, m)
====
